---- MODULE Spec2Model ----
(***************************************************************************)
(* StreamDb (.sdb) container writer of create_idtech4_project.py:          *)
(* pager, document writer, reverse radix trie, index and header, and the   *)
(* ingestor generate_sdb that packs a directory into a container.          *)
(*                                                                         *)
(* Text is a sequence of Unicode code points, a byte string a sequence of  *)
(* numbers 0..255.  A page of the file is a record holding the header      *)
(* fields that write_raw_page packs and the payload bytes that follow it.  *)
(***************************************************************************)
EXTENDS Integers, Sequences, FiniteSets, TLC

\* ------------------------------------------------------------------------
\* Program constants (module level of create_idtech4_project.py)
\* ------------------------------------------------------------------------
PAGE_SIZE == 4096
PAGE_HEADER_SIZE == 32
FLAG_DATA_PAGE == 1
FLAG_TRIE_PAGE == 2
FLAG_INDEX_PAGE == 8
MagicLen == 8
MAGIC == <<85, 170, 254, 237, 250, 206, 218, 122>>
HEADER_SIZE == MagicLen + 3 * (8 + 4)

\* ------------------------------------------------------------------------
\* Bounds of the model
\* ------------------------------------------------------------------------
\* write_document calls per container
MaxDocs == 3

\* uuid.uuid4() values: the value n stands for the UUID whose 16 bytes are
\* fifteen zero bytes followed by n.  None is written NoDoc.
UUIDs == 1..MaxDocs
NoDoc == 0

\* Logical paths handed to write_document in the trie specification.  Code
\* points: 97 "a", 98 "b", 225 "a-acute", 233 "e-acute" (the last two encode
\* in UTF-8 as C3 A1 and C3 A9).  The empty path is included.
Paths ==
  { <<>>, <<97>>, <<98>>, <<97, 97>>, <<98, 97>>, <<98, 97, 97>>,
    <<97, 98, 97>>, <<225>>, <<225, 97, 97>>, <<233, 97>> }

\* Payloads: n bytes, either all the same byte ("run", compressible) or
\* without any repetition ("random", incompressible).
Blob(n, kind) == [len |-> n, kind |-> kind]
TrieData == { Blob(2, "random") }

\* Paths and number of calls of the split specification: the empty path and
\* the keys 'a', 'aaa', 'aab' and 'aabbb'
MaxSplitDocs == 4
SplitPaths ==
  { <<>>, <<97>>, <<97, 97, 97>>, <<98, 97, 97>>, <<98, 98, 98, 97, 97>> }
ChainPaths == { <<97>>, <<98, 97>> }
ChainData ==
  { Blob(0, "run"), Blob(2, "random"), Blob(4064, "random"),
    Blob(4065, "run"), Blob(10000, "run") }

\* ------------------------------------------------------------------------
\* Sequences
\* ------------------------------------------------------------------------
Min(a, b) == IF a <= b THEN a ELSE b
Max(a, b) == IF a >= b THEN a ELSE b

\* path[::-1]
Reverse(s) == [i \in 1..Len(s) |-> s[Len(s) + 1 - i]]

\* s[n:] of Python for 0 <= n
Drop(s, n) == IF n >= Len(s) THEN <<>> ELSE SubSeq(s, n + 1, Len(s))
\* s[:n] of Python for 0 <= n
Take(s, n) == SubSeq(s, 1, Min(n, Len(s)))

RECURSIVE Flatten(_)
Flatten(ss) == IF ss = <<>> THEN <<>> ELSE Head(ss) \o Flatten(Tail(ss))

\* sorted(...) of a finite set of integers
RECURSIVE SortedSeq(_)
SortedSeq(S) ==
  IF S = {} THEN <<>>
  ELSE LET lo == CHOOSE x \in S : \A y \in S : x <= y
       IN <<lo>> \o SortedSeq(S \ {lo})

\* ------------------------------------------------------------------------
\* struct.pack / struct.unpack_from, little-endian two's complement
\* ------------------------------------------------------------------------
LE4(n) == <<n % 256, (n \div 256) % 256, (n \div 65536) % 256, (n \div 16777216) % 256>>

\* struct.pack('<i', n)
Pack32(n) ==
  IF n >= 0 THEN LE4(n)
  ELSE [i \in 1..4 |-> 255 - LE4(-n - 1)[i]]

\* struct.pack('<q', n) for a value that fits 32 bits (page ids, -1)
Pack64(n) ==
  Pack32(n) \o (IF n >= 0 THEN <<0, 0, 0, 0>> ELSE <<255, 255, 255, 255>>)

\* struct.unpack('<i', b)
Unpack32(b) ==
  IF b[4] < 128
  THEN b[1] + 256 * b[2] + 65536 * b[3] + 16777216 * b[4]
  ELSE -((255 - b[1]) + 256 * (255 - b[2]) + 65536 * (255 - b[3])
         + 16777216 * (255 - b[4])) - 1

\* struct.unpack('<q', b); the high half is the sign extension of the low
\* half for every value the writer packs
Unpack64(b) == Unpack32(SubSeq(b, 1, 4))

\* ------------------------------------------------------------------------
\* UTF-8 (code points below 0x800)
\* ------------------------------------------------------------------------
\* ch.encode('utf-8')
Utf8Char(cp) ==
  IF cp < 128 THEN <<cp>> ELSE <<192 + (cp \div 64), 128 + (cp % 64)>>

\* s.encode('utf-8')
Utf8Encode(s) == Flatten([i \in 1..Len(s) |-> Utf8Char(s[i])])

DecodeError == <<-1>>

\* bytes.decode('utf-8'): the text, or DecodeError for UnicodeDecodeError
RECURSIVE Utf8Decode(_)
Utf8Decode(b) ==
  IF b = <<>> THEN <<>>
  ELSE IF b[1] < 128 THEN
    LET rest == Utf8Decode(Tail(b))
    IN IF rest = DecodeError THEN DecodeError ELSE <<b[1]>> \o rest
  ELSE IF b[1] >= 194 /\ b[1] < 224 /\ Len(b) >= 2 /\ b[2] >= 128 /\ b[2] < 192 THEN
    LET rest == Utf8Decode(Drop(b, 2))
    IN IF rest = DecodeError THEN DecodeError
       ELSE <<(b[1] - 192) * 64 + (b[2] - 128)>> \o rest
  ELSE DecodeError

\* uuid.UUID.bytes
UuidBytes(id) == <<0, 0, 0, 0, 0, 0, 0, 0, 0, 0, 0, 0, 0, 0, 0, id>>
\* uuid.UUID(bytes=b)
UuidFromBytes(b) == b[16]

\* ------------------------------------------------------------------------
\* ReverseTrieNode and its serialization
\* ------------------------------------------------------------------------
\* children: a function from the key character (code point) to a page id
NoChildren == [c \in {} |-> 0]

ReverseTrieNode(edge, parent_page_id, self_page_id, document_id, children) ==
  [edge |-> edge, parent_page_id |-> parent_page_id,
   self_page_id |-> self_page_id, document_id |-> document_id,
   children |-> children]

\* for ch, child_id in sorted(node.children.items()): ch.encode + pack('<q')
SerializeChildren(children) ==
  LET keys == SortedSeq(DOMAIN children)
  IN Flatten([i \in 1..Len(keys) |->
                Utf8Char(keys[i]) \o Pack64(children[keys[i]])])

SerializeTrieNode(node) ==
  LET edge_bytes == Utf8Encode(node.edge)
  IN Pack32(Len(edge_bytes)) \o edge_bytes
     \o Pack64(node.parent_page_id) \o Pack64(node.self_page_id)
     \o Pack32(IF node.document_id # NoDoc THEN 1 ELSE 0)
     \o (IF node.document_id # NoDoc THEN UuidBytes(node.document_id) ELSE <<>>)
     \o Pack32(Cardinality(DOMAIN node.children))
     \o SerializeChildren(node.children)

\* data[reader:reader+k] (reader counts from 0)
Slice(b, reader, k) ==
  IF reader >= Len(b) \/ k <= 0 THEN <<>>
  ELSE SubSeq(b, reader + 1, Min(reader + k, Len(b)))

\* struct.unpack_from needs k bytes at reader
HasBytes(b, reader, k) == reader >= 0 /\ reader + k <= Len(b)

ParseFail(e) == [err |-> e, node |-> ReverseTrieNode(<<>>, -1, -1, NoDoc, NoChildren)]

\* for _ in range(child_count): one key byte, then '<q'.  That is the
\* reader of the code (wide = FALSE); with wide = TRUE a key takes the bytes
\* that _serialize_trie_node wrote for it (ch.encode('utf-8')), which reads
\* a page back as the node that was written.
RECURSIVE ParseChildren(_, _, _, _, _)
ParseChildren(b, reader, count, children, wide) ==
  IF count <= 0 THEN [err |-> "none", children |-> children]
  ELSE LET first == Slice(b, reader, 1)
           width == IF wide /\ first # <<>> /\ first[1] >= 128 THEN 2 ELSE 1
           key == Slice(b, reader, width)
           ch == Utf8Decode(key)
       IN IF ch = DecodeError
          THEN [err |-> "UnicodeDecodeError", children |-> children]
          ELSE IF ~HasBytes(b, reader + width, 8)
          THEN [err |-> "struct.error", children |-> children]
          ELSE LET child_id == Unpack64(Slice(b, reader + width, 8))
                   \* an empty key cannot occur: the '<q' above had failed
                   k == ch[1]
                   next == [c \in DOMAIN children \cup {k} |->
                              IF c = k THEN child_id ELSE children[c]]
               IN ParseChildren(b, reader + width + 8, count - 1, next, wide)

ParseTrieNode(b, wide) ==
  IF ~HasBytes(b, 0, 4) THEN ParseFail("struct.error")
  ELSE
  LET edge_len == Unpack32(Slice(b, 0, 4))
      edge == Utf8Decode(Slice(b, 4, edge_len))
      r1 == 4 + edge_len
  IN IF edge = DecodeError THEN ParseFail("UnicodeDecodeError")
     ELSE IF ~HasBytes(b, r1, 20) THEN ParseFail("struct.error")
     ELSE
     LET parent == Unpack64(Slice(b, r1, 8))
         self_id == Unpack64(Slice(b, r1 + 8, 8))
         has_doc == Unpack32(Slice(b, r1 + 16, 4))
         r2 == r1 + 20
         r3 == IF has_doc # 0 THEN r2 + 16 ELSE r2
     IN IF has_doc # 0 /\ ~HasBytes(b, r2, 16) THEN ParseFail("ValueError")
        ELSE IF ~HasBytes(b, r3, 4) THEN ParseFail("struct.error")
        ELSE
        LET doc_id == IF has_doc # 0 THEN UuidFromBytes(Slice(b, r2, 16)) ELSE NoDoc
            child_count == Unpack32(Slice(b, r3, 4))
            kids == ParseChildren(b, r3 + 4, child_count, NoChildren, wide)
        IN IF kids.err # "none" THEN ParseFail(kids.err)
           ELSE [err |-> "none",
                 node |-> ReverseTrieNode(edge, parent, self_id, doc_id, kids.children)]

\* _deserialize_trie_node
DeserializeTrieNode(b) == ParseTrieNode(b, FALSE)

\* ------------------------------------------------------------------------
\* State
\* ------------------------------------------------------------------------
VARIABLES
  use_compression,     \* StreamDb.use_compression
  current_page_id,     \* StreamDb.current_page_id
  documents,           \* StreamDb.documents: uuid -> Document
  trie_root_page_id,   \* StreamDb.trie_root_page_id
  index_page_id,       \* StreamDb.index_page_id
  header,              \* the three (i64, i32) slots after MAGIC in the file
  pages,               \* the pages of the file: page id -> page, once written
  status,              \* "open", "closed" (close returned), "failed" (a call raised)
  error,               \* the exception that ended the failed call, or "none"
  calls,               \* history: the write_document calls made, in order
  io,                  \* history: allocations, page writes and reads of the last call
  asset_dir,           \* generate_sdb: the files under the input directory
  os_sep,              \* generate_sdb: os.sep of the host, "/" or "\\"
  output_inside,       \* generate_sdb: output_path lies in the input directory
  walk,                \* generate_sdb: the position of the os.walk loops
  file_count,          \* generate_sdb: file_count
  ingested,            \* history: the files handed to write_document, in order
  pc,                  \* generate_sdb: "idle" (not running), "walk", "done", "failed"
  process_stdout,      \* download: the lines git wrote that readline has not returned yet
  stdout_open,         \* download: git has not closed its output
  queue,               \* download: the items of q, the queue.Queue between thread and UI loop
  thread,              \* download: "none", "running" (in read_output), "ended"
  animation_running,   \* download: animation_running
  spinner_idx,         \* download: spinner_idx
  progress,            \* download: progress
  last_line,           \* download: last_line
  displayed,           \* download: the percentage of the status line on the screen
  git_lines,           \* history: every line git wrote, in order
  enqueued,            \* history: every item put into q, in order
  dequeued,            \* history: every item the UI loop got from q, in order
  dl_pc                \* download: "idle" (not running), "loop", "join", "joined"

dbVars == <<use_compression, current_page_id, documents, trie_root_page_id,
            index_page_id, header, pages, status, error, calls, io>>

ingestVars == <<asset_dir, os_sep, output_inside, walk, file_count, ingested, pc>>

downloadVars == <<process_stdout, stdout_open, queue, thread, animation_running,
                  spinner_idx, progress, last_line, displayed, git_lines,
                  enqueued, dequeued, dl_pc>>

vars == <<use_compression, current_page_id, documents, trie_root_page_id,
          index_page_id, header, pages, status, error, calls, io,
          asset_dir, os_sep, output_inside, walk, file_count, ingested, pc,
          process_stdout, stdout_open, queue, thread, animation_running,
          spinner_idx, progress, last_line, displayed, git_lines,
          enqueued, dequeued, dl_pc>>

Document(id, first_page_id, current_version, paths) ==
  [id |-> id, first_page_id |-> first_page_id,
   current_version |-> current_version, paths |-> paths]

\* ------------------------------------------------------------------------
\* Codec: snappy and crc32 as the pager uses them
\* ------------------------------------------------------------------------
\* The payload handed to write_raw_page: the bytes of a trie node or of the
\* index (body), or the slice data[lo:hi] of a document's payload (chunk).
BodyContent(bytes) == [body |-> bytes, chunk |-> <<>>]
ChunkContent(blob, lo, hi) == [body |-> <<>>, chunk |-> <<blob, lo, hi>>]
ContentLen(c) == IF c.chunk = <<>> THEN Len(c.body) ELSE c.chunk[3] - c.chunk[2]

\* len(snappy.compress(data)): the varint of the length, then either one
\* literal element (tag of 1 to 3 bytes and the bytes themselves) or, for a
\* run of one byte value, a one-byte literal and copies of at most 64 bytes
\* taking 3 bytes each.
SnappyLen(n, kind) ==
  LET preamble == IF n < 128 THEN 1 ELSE 2
      tag == IF n <= 60 THEN 1 ELSE IF n <= 256 THEN 2 ELSE 3
  IN IF n = 0 THEN 1
     ELSE IF kind = "run" /\ n > 16 THEN preamble + 2 + 3 * ((n + 62) \div 64)
     ELSE preamble + tag + n

\* len(compressed) in write_raw_page
StoredLen(c, compress) ==
  IF ~compress THEN ContentLen(c)
  ELSE IF c.chunk = <<>> THEN SnappyLen(Len(c.body), "random")
  ELSE SnappyLen(ContentLen(c), c.chunk[1].kind)

\* binascii.crc32(compressed) & 0xffffffff: the checksum is represented by
\* the byte string it was computed over
Crc32(c, compress) == <<"crc32", compress, c>>

\* ------------------------------------------------------------------------
\* Pager.  A call works on a record m of the fields it can change:
\*   cur (current_page_id), root (trie_root_page_id), pages, io, err
\* and stops at the first exception (err # "none").
\* ------------------------------------------------------------------------
PayloadRoom == PAGE_SIZE - PAGE_HEADER_SIZE

\* the offset computed without the file header
PageOffsetNoHeader(page_id) == page_id * PAGE_SIZE

\* offset = HEADER_SIZE + page_id * self.page_size
PageOffset(page_id) == HEADER_SIZE + page_id * PAGE_SIZE

\* size of the file: the end of the furthest byte written
FileEnd(pgs) ==
  LET ends == {HEADER_SIZE} \cup
              {PageOffset(p) + PAGE_HEADER_SIZE + pgs[p].extent : p \in DOMAIN pgs}
  IN CHOOSE e \in ends : \A f \in ends : f <= e

Log(m, event) == [m EXCEPT !.io = Append(@, event)]

\* allocate_page without the increment
AllocatePageNoIncrement(m) ==
  [m |-> Log(m, <<"alloc", m.cur>>), page_id |-> m.cur]

\* allocate_page: returns [m, page_id]
AllocatePage(m) ==
  [m |-> Log([m EXCEPT !.cur = @ + 1], <<"alloc", m.cur>>), page_id |-> m.cur]

\* write_raw_page.  The header and the stored bytes overwrite the file at the
\* page's offset (the position of the seek, kept in the page); bytes of an earlier, longer payload stay behind them
\* (tail, extent).  A payload longer than the room of the page reaches into
\* the next page, whose header, once written, overwrites its end (body_ok).
WriteRawPage(m, page_id, content, flags, prev_page_id, next_page_id) ==
  LET data_length == StoredLen(content, use_compression)
      old == IF page_id \in DOMAIN m.pages THEN m.pages[page_id].body \o m.pages[page_id].tail
             ELSE <<>>
      oldExtent == IF page_id \in DOMAIN m.pages THEN m.pages[page_id].extent ELSE 0
      page == [offset |-> PageOffset(page_id),
               crc |-> Crc32(content, use_compression), version |-> 0,
               prev_page_id |-> prev_page_id, next_page_id |-> next_page_id,
               flags |-> flags, data_length |-> data_length,
               body |-> content.body, chunk |-> content.chunk,
               tail |-> IF use_compression THEN <<>> ELSE Drop(old, data_length),
               extent |-> Max(data_length, oldExtent),
               body_ok |-> TRUE]
      hit(p) == \* the header written at page_id lands on the overflow of page_id - 1
        IF p = page_id - 1 /\ m.pages[p].extent > PayloadRoom
        THEN [m.pages[p] EXCEPT !.body_ok = FALSE]
        ELSE m.pages[p]
      pgs == [p \in DOMAIN m.pages \cup {page_id} |->
                IF p = page_id THEN page ELSE hit(p)]
  IN Log([m EXCEPT !.pages = pgs], <<"write", page_id, flags, data_length>>)

\* _write_trie_node
WriteTrieNode(m, page_id, node) ==
  WriteRawPage(m, page_id, BodyContent(SerializeTrieNode(node)), FLAG_TRIE_PAGE, -1, -1)

\* self.file.read(self.page_size - self.page_header_size) at the payload of
\* page_id: how many bytes the file has there
RegionLen(pgs, page_id) ==
  Max(0, Min(PayloadRoom, FileEnd(pgs) - (PageOffset(page_id) + PAGE_HEADER_SIZE)))

\* whether the stored payload of a page is the one its header's crc was
\* computed over (write_raw_page makes it so; only a fault changes it)
ContentOf(pg) == [body |-> pg.body, chunk |-> pg.chunk]
CrcMatches(pg) == pg.crc = Crc32(ContentOf(pg), use_compression)

\* the bytes _read_trie_node hands to _deserialize_trie_node: the payload
\* region as far as the file reaches or, with compression, the decompressed
\* stream
RegionData(m, page_id) ==
  IF page_id \notin DOMAIN m.pages THEN [i \in 1..RegionLen(m.pages, page_id) |-> 0]
  ELSE IF use_compression THEN m.pages[page_id].body
  ELSE Take(m.pages[page_id].body \o m.pages[page_id].tail, RegionLen(m.pages, page_id))

\* snappy.decompress accepts exactly one complete stream: bytes after it (an
\* earlier payload, the gap up to the next page) or a cut stream raise
\* UncompressError
Decompresses(m, page_id) ==
  /\ page_id \in DOMAIN m.pages
  /\ m.pages[page_id].body_ok
  /\ RegionLen(m.pages, page_id) = m.pages[page_id].data_length

\* _read_trie_node: [err, node]
ReadTrieNode(m, page_id) ==
  IF use_compression /\ ~Decompresses(m, page_id) THEN ParseFail("UncompressError")
  ELSE DeserializeTrieNode(RegionData(m, page_id))

\* the read as an event of the call
LogRead(m, page_id, r) ==
  Log(m, <<"read", page_id, r.err,
           page_id \in DOMAIN m.pages /\ CrcMatches(m.pages[page_id])>>)

\* an exception leaves the call
Raise(m, e) == [m EXCEPT !.err = e]

\* ------------------------------------------------------------------------
\* Document writer: the while loop of write_document
\* ------------------------------------------------------------------------
\* returns [m, first_page_id, chunk_pages]; chunk_pages lists the page each
\* chunk was written to, in order
RECURSIVE WriteChunks(_, _, _, _, _, _)
WriteChunks(m, data, data_pos, first_page_id, prev_page_id, chunk_pages) ==
  IF ~(data_pos < data.len)
  THEN [m |-> m, first_page_id |-> first_page_id, chunk_pages |-> chunk_pages]
  ELSE
  LET max_chunk == PAGE_SIZE - PAGE_HEADER_SIZE
      chunk_end == Min(data_pos + max_chunk, data.len)
      a1 == AllocatePage(m)
      page_id == a1.page_id
      a2 == IF chunk_end = data.len THEN [m |-> a1.m, page_id |-> -1]
            ELSE AllocatePage(a1.m)
      next_page_id == a2.page_id
      m3 == WriteRawPage(a2.m, page_id, ChunkContent(data, data_pos, chunk_end),
                         FLAG_DATA_PAGE, prev_page_id, next_page_id)
  IN WriteChunks(m3, data, chunk_end,
                 IF first_page_id = -1 THEN page_id ELSE first_page_id,
                 page_id, Append(chunk_pages, page_id))

\* ------------------------------------------------------------------------
\* Reverse radix trie: _trie_insert
\* ------------------------------------------------------------------------
\* while common < min_len and remaining[common] == edge[common]: common += 1
RECURSIVE CommonFrom(_, _, _)
CommonFrom(remaining, edge, common) ==
  IF common < Min(Len(remaining), Len(edge)) /\ remaining[common + 1] = edge[common + 1]
  THEN CommonFrom(remaining, edge, common + 1)
  ELSE common

CommonPrefixLen(remaining, edge) == CommonFrom(remaining, edge, 0)

\* node.children[ch] = page
SetChild(children, ch, page) ==
  [c \in DOMAIN children \cup {ch} |-> IF c = ch THEN page ELSE children[c]]

\* the leaf written to the page of its parent instead of the new page
NewLeafInPlace(a, current, node, remaining, doc_id) ==
  WriteTrieNode(
    WriteTrieNode(a.m, current,
                  ReverseTrieNode(Drop(remaining, 1), current, a.page_id,
                                  IF Len(remaining) = 1 THEN doc_id ELSE NoDoc,
                                  NoChildren)),
    current,
    [node EXCEPT !.children = SetChild(@, remaining[1], a.page_id)])

\* the "create a leaf" arm (lines 127-136 without the descent, 138-144):
\* remaining is not consumed by the key character
NewLeafAt(a, current, node, remaining, doc_id) ==
  WriteTrieNode(
    WriteTrieNode(a.m, a.page_id,
                  ReverseTrieNode(Drop(remaining, 1), current, a.page_id,
                                  IF Len(remaining) = 1 THEN doc_id ELSE NoDoc,
                                  NoChildren)),
    current,
    [node EXCEPT !.children = SetChild(@, remaining[1], a.page_id)])

NewLeaf(m, current, node, remaining, doc_id) ==
  NewLeafAt(AllocatePage(m), current, node, remaining, doc_id)

\* the split arm (lines 145-170), in the order of its statements:
\* lines 159-170: the rest of the key below the split node
SplitRest(m, current, split_node, rest, doc_id) ==
  IF rest = <<>>
  THEN WriteTrieNode(m, current, [split_node EXCEPT !.document_id = doc_id])
  ELSE NewLeaf(m, current, split_node, rest, doc_id)

\* lines 147, 151, 158: the split node replaces the node on its page
SplitWrite(m, current, rest, doc_id, split_node) ==
  SplitRest(WriteTrieNode(m, current, split_node), current, split_node, rest, doc_id)

\* line 151 left out: the split node keeps the link of line 147 to its own page
SplitCurrentLinksSelf(m, suffix_page, current, node, remaining, common, doc_id) ==
  SplitWrite(m, current, Drop(remaining, common), doc_id,
             ReverseTrieNode(Take(node.edge, common), node.parent_page_id, current, NoDoc,
                             SetChild(NoChildren, node.edge[common + 1], node.self_page_id)))

SplitCurrent(m, suffix_page, current, node, remaining, common, doc_id) ==
  SplitWrite(m, current, Drop(remaining, common), doc_id,
             ReverseTrieNode(Take(node.edge, common), node.parent_page_id, current, NoDoc,
                             SetChild(NoChildren, node.edge[common + 1], suffix_page)))

\* lines 153-157: the parent is read and written back with every child entry
\* that equals current set to current
SplitParentRead(m, rp, suffix_page, current, node, remaining, common, doc_id) ==
  IF rp.err # "none" THEN Raise(LogRead(m, node.parent_page_id, rp), rp.err)
  ELSE SplitCurrent(
         WriteTrieNode(LogRead(m, node.parent_page_id, rp), node.parent_page_id,
                       [rp.node EXCEPT !.children =
                          [k \in DOMAIN @ |-> IF @[k] = current THEN current ELSE @[k]]]),
         suffix_page, current, node, remaining, common, doc_id)

\* line 152
SplitParent(m, suffix_page, current, node, remaining, common, doc_id) ==
  IF node.parent_page_id # -1
  THEN SplitParentRead(m, ReadTrieNode(m, node.parent_page_id),
                       suffix_page, current, node, remaining, common, doc_id)
  ELSE SplitCurrent(m, suffix_page, current, node, remaining, common, doc_id)

\* the suffix node keeps the page of the split node as its own
SplitAtStaleSelf(a, current, node, remaining, common, doc_id) ==
  SplitParent(
    WriteTrieNode(Log(a.m, <<"split", current, node, common, remaining, a.page_id>>),
                  a.page_id,
                  ReverseTrieNode(Drop(node.edge, common), current, current,
                                  node.document_id, node.children)),
    a.page_id, current, node, remaining, common, doc_id)

\* lines 148-150: the suffix node takes the rest of the edge, the document
\* and the children; the split is an event of the call
SplitAt(a, current, node, remaining, common, doc_id) ==
  SplitParent(
    WriteTrieNode(Log(a.m, <<"split", current, node, common, remaining, a.page_id>>),
                  a.page_id,
                  ReverseTrieNode(Drop(node.edge, common), current, a.page_id,
                                  node.document_id, node.children)),
    a.page_id, current, node, remaining, common, doc_id)

SplitNode(m, current, node, remaining, common, doc_id) ==
  SplitAt(AllocatePage(m), current, node, remaining, common, doc_id)

\* the loop "while remaining:" from the node on page current
RECURSIVE TrieLoop(_, _, _, _)

\* lines 121-170: the three arms, node having been read
TrieArm(m, current, node, remaining, common, doc_id) ==
  IF common = Len(node.edge)
  THEN IF Drop(remaining, common) = <<>>
       THEN WriteTrieNode(m, current, [node EXCEPT !.document_id = doc_id])
       ELSE IF remaining[common + 1] \in DOMAIN node.children
       THEN TrieLoop(m, node.children[remaining[common + 1]],
                     Drop(remaining, common), doc_id)
       ELSE NewLeaf(m, current, node, Drop(remaining, common), doc_id)
  ELSE IF common = 0
  THEN NewLeaf(m, current, node, remaining, doc_id)
  ELSE SplitNode(m, current, node, remaining, common, doc_id)

\* lines 115-120; the comparison of remaining with the edge of the node is
\* an event of the call
TrieVisit(m, current, r, remaining, doc_id) ==
  IF r.err # "none" THEN Raise(LogRead(m, current, r), r.err)
  ELSE TrieArm(Log(LogRead(m, current, r),
                   <<"compare", current, remaining, r.node.edge>>),
               current, r.node, remaining,
               CommonPrefixLen(remaining, r.node.edge), doc_id)

TrieLoop(m, current, remaining, doc_id) ==
  IF remaining = <<>> THEN m
  ELSE TrieVisit(m, current, ReadTrieNode(m, current), remaining, doc_id)

\* lines 108-111: the root is created on the first insert
CreateRoot(a) ==
  WriteTrieNode([a.m EXCEPT !.root = a.page_id], a.page_id,
                ReverseTrieNode(<<>>, -1, a.page_id, NoDoc, NoChildren))

\* the empty key stored at the root
TrieFromRootStoresEmpty(m, reversed_path, doc_id) ==
  IF reversed_path = <<>>
  THEN WriteTrieNode(m, m.root, ReverseTrieNode(<<>>, -1, m.root, doc_id, NoChildren))
  ELSE TrieLoop(m, m.root, reversed_path, doc_id)

\* lines 112-114
TrieFromRoot(m, reversed_path, doc_id) == TrieLoop(m, m.root, reversed_path, doc_id)

\* a root created by every insert
TrieInsertFreshRoot(m, path, doc_id) ==
  TrieFromRoot(CreateRoot(AllocatePage(m)), Reverse(path), doc_id)

TrieInsert(m, path, doc_id) ==
  TrieFromRoot(IF m.root = -1 THEN CreateRoot(AllocatePage(m)) ELSE m,
               Reverse(path), doc_id)

\* ------------------------------------------------------------------------
\* Document index: _serialize_index
\* ------------------------------------------------------------------------
SerializeIndexRecord(doc) ==
  UuidBytes(doc.id) \o Pack64(doc.first_page_id) \o Pack32(doc.current_version)
  \o Pack32(Len(doc.paths))
  \o Flatten([i \in 1..Len(doc.paths) |->
                LET p_bytes == Utf8Encode(doc.paths[i])
                IN Pack32(Len(p_bytes)) \o p_bytes])

\* the records in descending order of the ids
SerializeIndexDescending(docs) ==
  LET ids == Reverse(SortedSeq(DOMAIN docs))
  IN Pack32(Cardinality(DOMAIN docs))
     \o Flatten([i \in 1..Len(ids) |-> SerializeIndexRecord(docs[ids[i]])])

\* sorted(self.documents.items(), key=lambda x: x[0])
SerializeIndex(docs) ==
  LET ids == SortedSeq(DOMAIN docs)
  IN Pack32(Cardinality(DOMAIN docs))
     \o Flatten([i \in 1..Len(ids) |-> SerializeIndexRecord(docs[ids[i]])])

\* ------------------------------------------------------------------------
\* Container driver
\* ------------------------------------------------------------------------
Machine == [cur |-> current_page_id, root |-> trie_root_page_id, pages |-> pages,
            io |-> <<>>, err |-> "none"]

\* StreamDb.__init__ and _write_initial_header
OpenDb ==
  /\ use_compression \in BOOLEAN
  /\ current_page_id = 0
  /\ documents = [u \in {} |-> 0]
  /\ trie_root_page_id = -1
  /\ index_page_id = -1
  /\ header = << <<-1, 0>>, <<-1, 0>>, <<-1, 0>> >>
  /\ pages = [p \in {} |-> 0]
  /\ status = "open"
  /\ error = "none"
  /\ calls = <<>>
  /\ io = <<>>

\* no os.walk is under way
NoWalk == [root |-> <<>>, files |-> <<>>, stack |-> <<>>]

\* download_game_directory is not running
NoDownload ==
  /\ process_stdout = <<>>
  /\ stdout_open = FALSE
  /\ queue = <<>>
  /\ thread = "none"
  /\ animation_running = FALSE
  /\ spinner_idx = 0
  /\ progress = 0
  /\ last_line = ""
  /\ displayed = 0
  /\ git_lines = <<>>
  /\ enqueued = <<>>
  /\ dequeued = <<>>
  /\ dl_pc = "idle"

\* a container used through write_document and close, without generate_sdb
Init ==
  /\ NoDownload
  /\ OpenDb
  /\ asset_dir = {}
  /\ os_sep = "/"
  /\ output_inside = FALSE
  /\ walk = NoWalk
  /\ file_count = 0
  /\ ingested = <<>>
  /\ pc = "idle"

\* lines 102-104 of write_document, w being the result of the chunk loop:
\* [m, documents, call]
InsertDocument(w, path, data, id) ==
  [m |-> TrieInsert(w.m, path, id),
   documents |-> [u \in DOMAIN documents \cup {id} |->
                    IF u = id THEN Document(id, w.first_page_id, 0, <<path>>)
                    ELSE documents[u]],
   call |-> [path |-> path, data |-> data, id |-> id,
             chunk_pages |-> w.chunk_pages, first_page_id |-> w.first_page_id]]

\* write_document(path, data), id being the value of uuid.uuid4()
DbWrite(path, data, id) ==
  /\ status = "open"
  /\ id \notin DOMAIN documents
  /\ \E res \in {InsertDocument(WriteChunks(Machine, data, 0, -1, -1, <<>>), path, data, id)} :
        /\ documents' = res.documents
        /\ current_page_id' = res.m.cur
        /\ trie_root_page_id' = res.m.root
        /\ pages' = res.m.pages
        /\ io' = res.m.io
        /\ error' = res.m.err
        /\ status' = IF res.m.err = "none" THEN "open" ELSE "failed"
        /\ calls' = Append(calls, res.call)
  /\ UNCHANGED <<use_compression, index_page_id, header>>

\* at most MaxDocs calls of write_document
DbWriteDocument(path, data, id) ==
  /\ Len(calls) < MaxDocs
  /\ DbWrite(path, data, id)

\* write_document called on the container directly
WriteDocument(path, data, id) ==
  /\ pc = "idle"
  /\ DbWriteDocument(path, data, id)
  /\ UNCHANGED ingestVars
  /\ UNCHANGED downloadVars

\* the index page allocated and left unwritten
WriteIndexSkipped(a) == a.m

\* lines 228-230 of close, a being the allocation of the index page
WriteIndex(a) ==
  WriteRawPage(a.m, a.page_id, BodyContent(SerializeIndex(documents)),
               FLAG_INDEX_PAGE, -1, -1)

\* the three struct.pack('<q i', ..) writes of close at offset len(MAGIC)
CloseHeaderSwapped(index_page, trie_root) ==
  << <<trie_root, 0>>, <<index_page, 0>>, <<-1, 0>> >>

CloseHeader(index_page, trie_root) ==
  << <<index_page, 0>>, <<trie_root, 0>>, <<-1, 0>> >>

\* close
DbClose ==
  /\ status = "open"
  /\ \E a \in {AllocatePage(Machine)} : \E m \in {WriteIndex(a)} :
        /\ index_page_id' = a.page_id
        /\ current_page_id' = m.cur
        /\ pages' = m.pages
        /\ header' = CloseHeader(a.page_id, trie_root_page_id)
        /\ io' = Append(m.io, <<"header", a.page_id>>)
  /\ status' = "closed"
  /\ UNCHANGED <<use_compression, documents, trie_root_page_id, error, calls>>

\* close called on the container directly
Close ==
  /\ pc = "idle"
  /\ DbClose
  /\ UNCHANGED ingestVars
  /\ UNCHANGED downloadVars

\* The trie specification: many paths, one small payload
WriteTrieDocument ==
  \E path \in Paths, data \in TrieData, id \in UUIDs : WriteDocument(path, data, id)

Next == WriteTrieDocument \/ Close

Spec == Init /\ [][Next]_vars

\* The chain specification: few paths, payloads of 0 to 3 chunks
WriteChainDocument ==
  \E path \in ChainPaths, data \in ChainData, id \in UUIDs : WriteDocument(path, data, id)

NextChain == WriteChainDocument \/ Close

SpecChain == Init /\ [][NextChain]_vars

\* The split specification: one more call, on paths whose keys share the
\* prefixes 'a' and 'aa', so that a child of a split node is split in turn
WriteSplitDocument ==
  /\ pc = "idle"
  /\ Len(calls) < MaxSplitDocs
  /\ \E path \in SplitPaths, data \in TrieData, id \in 1..MaxSplitDocs :
       DbWrite(path, data, id)
  /\ UNCHANGED ingestVars
  /\ UNCHANGED downloadVars

NextSplit == WriteSplitDocument \/ Close

SpecSplit == Init /\ [][NextSplit]_vars

\* The fault specification: between calls a byte of a stored trie payload
\* may change on the medium (one of the bytes of the node's edge, to another
\* letter), at most one page at a time
FaultPaths == { <<97>>, <<97, 97>>, <<98, 97>>, <<98, 97, 97>> }

FlipByte(p, i, v) ==
  /\ status = "open"
  /\ \A q \in DOMAIN pages : CrcMatches(pages[q])
  /\ p \in DOMAIN pages
  /\ pages[p].flags = FLAG_TRIE_PAGE
  /\ i \in 5..(4 + Unpack32(Slice(pages[p].body, 0, 4)))
  /\ v # pages[p].body[i]
  /\ pages' = [pages EXCEPT ![p].body = [@ EXCEPT ![i] = v]]
  /\ UNCHANGED <<use_compression, current_page_id, documents, trie_root_page_id,
                 index_page_id, header, status, error, calls, io>>
  /\ UNCHANGED ingestVars
  /\ UNCHANGED downloadVars

WriteFaultDocument ==
  \E path \in FaultPaths, data \in TrieData, id \in UUIDs : WriteDocument(path, data, id)

Fault ==
  \E p \in DOMAIN pages, i \in 5..8, v \in {97, 98} : FlipByte(p, i, v)

NextFault == WriteFaultDocument \/ Fault \/ Close

SpecFault == Init /\ [][NextFault]_vars

\* ------------------------------------------------------------------------
\* generate_sdb: the .sdb ingestor.  A file of the input directory is
\* [dir, name]: the names of the directories from the input root down to
\* the file, and the file's name; names are sequences of code points.
\* ------------------------------------------------------------------------
File(dir, name) == [dir |-> dir, name |-> name]

\* exclude_dirs = ['.git', '__pycache__', '.DS_Store']
DotGit == <<46, 103, 105, 116>>
PyCache == <<95, 95, 112, 121, 99, 97, 99, 104, 101, 95, 95>>
DsStore == <<46, 68, 83, 95, 83, 116, 111, 114, 101>>
exclude_dirs == {DotGit, PyCache, DsStore}

\* exclude_exts = ['.bak', '.tmp', '.log']
exclude_exts == { <<46, 98, 97, 107>>, <<46, 116, 109, 112>>, <<46, 108, 111, 103>> }

\* sdb_name: "o.sdb" (the name always ends in '.sdb')
SdbName == <<111, 46, 115, 100, 98>>
OutputFile == File(<<>>, SdbName)

\* The files the input directory may hold: a, b.bak, .git/c, d/e, the file
\* named d\e (a legal name where os.sep is "/"), d/__pycache__/f, a file
\* named .git, x.tmp/g (a directory named like an excluded extension)
FileUniverse ==
  { File(<<>>, <<97>>),
    File(<<>>, <<98, 46, 98, 97, 107>>),
    File(<<DotGit>>, <<99>>),
    File(<< <<100>> >>, <<101>>),
    File(<<>>, <<100, 92, 101>>),
    File(<< <<100>>, PyCache >>, <<102>>),
    File(<<>>, DotGit),
    File(<< <<120, 46, 116, 109, 112>> >>, <<103>>) }

\* at most so many files in the input directory: with the output file, one
\* write_document call each
MaxFiles == MaxDocs - 1

Trees == {t \in SUBSET FileUniverse : Cardinality(t) <= MaxFiles}

\* the payload of every input file
FileData == Blob(2, "random")

HasBackslash(name) == \E i \in 1..Len(name) : name[i] = 92

\* the enumerations of a finite set: the orders in which os.scandir may
\* list the entries of a directory
Orderings(S) ==
  {q \in [1..Cardinality(S) -> S] : \A i, j \in 1..Cardinality(S) : i # j => q[i] # q[j]}

\* the directory as the walk finds it: the output file was created by
\* StreamDb(output_path, ..) before os.walk starts
Listing == asset_dir \cup (IF output_inside THEN {OutputFile} ELSE {})

FilesIn(d) == {f.name : f \in {g \in Listing : g.dir = d}}

SubdirsOf(d) ==
  {f.dir[Len(d) + 1] : f \in {g \in Listing : Len(g.dir) > Len(d) /\ Take(g.dir, Len(d)) = d}}

\* file.endswith(ext)
EndsWith(name, ext) ==
  Len(name) >= Len(ext) /\ SubSeq(name, Len(name) - Len(ext) + 1, Len(name)) = ext

\* any(file.endswith(ext) for ext in exclude_exts)
ExcludedExt(name) == \E ext \in exclude_exts : EndsWith(name, ext)

\* os.path.relpath(os.path.join(root, file), asset_dir): the names joined
\* by os.sep
RECURSIVE JoinPath(_, _)
JoinPath(names, sep) ==
  IF Len(names) = 1 THEN names[1]
  ELSE names[1] \o <<sep>> \o JoinPath(Tail(names), sep)

SepChar == IF os_sep = "/" THEN 47 ELSE 92

\* .replace('\\', '/')
ReplaceBackslash(s) == [i \in 1..Len(s) |-> IF s[i] = 92 THEN 47 ELSE s[i]]

ArcName(root, name) == ReplaceBackslash(JoinPath(root \o <<name>>, SepChar))

\* f.read(): the output file holds what was written and flushed so far (its
\* pages and the gaps between them, mostly zero bytes)
ReadFile(root, name) ==
  IF output_inside /\ File(root, name) = OutputFile
  THEN Blob(FileEnd(pages), "run")
  ELSE FileData

\* the state at line 794: db = StreamDb(output_path, use_compression) done,
\* os.walk(asset_dir) not yet started
InitIngest ==
  /\ NoDownload
  /\ OpenDb
  /\ asset_dir \in Trees
  /\ os_sep \in {"/", "\\"}
  /\ os_sep = "\\" => \A f \in asset_dir : ~HasBackslash(f.name)
  /\ output_inside \in BOOLEAN
  /\ walk = [root |-> <<>>, files |-> <<>>, stack |-> << <<>> >>]
  /\ file_count = 0
  /\ ingested = <<>>
  /\ pc = "walk"

\* lines 794-795: os.walk yields the next directory, top-down; the excluded
\* names are removed from dirs, so the walk does not descend into them
WalkDir ==
  /\ pc = "walk"
  /\ walk.files = <<>>
  /\ walk.stack # <<>>
  /\ \E files \in Orderings(FilesIn(Head(walk.stack))),
        dirs \in Orderings(SubdirsOf(Head(walk.stack)) \ exclude_dirs) :
       walk' = [root |-> Head(walk.stack),
                files |-> files,
                stack |-> [i \in 1..Len(dirs) |-> Head(walk.stack) \o <<dirs[i]>>]
                          \o Tail(walk.stack)]
  /\ UNCHANGED dbVars
  /\ UNCHANGED <<asset_dir, os_sep, output_inside, file_count, ingested, pc>>
  /\ UNCHANGED downloadVars

\* lines 797-798: a file with an excluded extension is passed over
SkipFile ==
  /\ pc = "walk"
  /\ walk.files # <<>>
  /\ ExcludedExt(Head(walk.files))
  /\ walk' = [walk EXCEPT !.files = Tail(@)]
  /\ UNCHANGED dbVars
  /\ UNCHANGED <<asset_dir, os_sep, output_inside, file_count, ingested, pc>>
  /\ UNCHANGED downloadVars

\* lines 799-804: the file is read and written as a document; an exception
\* of write_document ends generate_sdb in its except clause (line 812)
IngestFile ==
  /\ pc = "walk"
  /\ walk.files # <<>>
  /\ ~ExcludedExt(Head(walk.files))
  /\ \E id \in UUIDs :
       DbWriteDocument(ArcName(walk.root, Head(walk.files)),
                       ReadFile(walk.root, Head(walk.files)), id)
  /\ walk' = [walk EXCEPT !.files = Tail(@)]
  /\ ingested' = Append(ingested, File(walk.root, Head(walk.files)))
  /\ file_count' = IF status' = "open" THEN file_count + 1 ELSE file_count
  /\ pc' = IF status' = "open" THEN "walk" ELSE "failed"
  /\ UNCHANGED <<asset_dir, os_sep, output_inside>>
  /\ UNCHANGED downloadVars

\* line 805: the walk is over, db.close()
FinishWalk ==
  /\ pc = "walk"
  /\ walk.files = <<>>
  /\ walk.stack = <<>>
  /\ DbClose
  /\ pc' = "done"
  /\ UNCHANGED <<asset_dir, os_sep, output_inside, walk, file_count, ingested>>
  /\ UNCHANGED downloadVars

NextIngest == WalkDir \/ SkipFile \/ IngestFile \/ FinishWalk

SpecIngest == InitIngest /\ [][NextIngest]_vars

\* ------------------------------------------------------------------------
\* download_game_directory: the reader thread and the UI loop
\* ------------------------------------------------------------------------
\* The lines of "git pull": text is the line without its newline, pct the
\* number before '%'.  Only "Receiving objects:" lines match progress_re.
MaxLines == 3

GitLine(text, pct) == [kind |-> "line", text |-> text, pct |-> pct]

GitLines ==
  { GitLine("remote: Counting objects: 50%", 50),
    GitLine("Receiving objects:  40%", 40),
    GitLine("Receiving objects:  90%", 90) }

\* q.put(None)
Sentinel == [kind |-> "None"]

\* progress_re.search(line): the percentage, or -1 without a match
ProgressRe(line) ==
  IF line.text \in {"Receiving objects:  40%", "Receiving objects:  90%"}
  THEN line.pct ELSE -1

\* the percentage of every matching line is taken
NewProgressUnguarded(line, old) ==
  IF ProgressRe(line) # -1 THEN ProgressRe(line) ELSE old

\* lines 463-467
NewProgress(line, old) ==
  IF ProgressRe(line) # -1 /\ ProgressRe(line) > old THEN ProgressRe(line) ELSE old

\* the state after thread.start() and the assignments of lines 446-451
InitDownload ==
  /\ OpenDb
  /\ use_compression = FALSE
  /\ asset_dir = {}
  /\ os_sep = "/"
  /\ output_inside = FALSE
  /\ walk = NoWalk
  /\ file_count = 0
  /\ ingested = <<>>
  /\ pc = "idle"
  /\ process_stdout = <<>>
  /\ stdout_open = TRUE
  /\ queue = <<>>
  /\ thread = "running"
  /\ animation_running = TRUE
  /\ spinner_idx = 0
  /\ progress = 0
  /\ last_line = ""
  /\ displayed = 0
  /\ git_lines = <<>>
  /\ enqueued = <<>>
  /\ dequeued = <<>>
  /\ dl_pc = "loop"

\* git writes a line to its output
GitWrites ==
  /\ stdout_open
  /\ Len(git_lines) < MaxLines
  /\ \E line \in GitLines :
       /\ process_stdout' = Append(process_stdout, line)
       /\ git_lines' = Append(git_lines, line)
  /\ UNCHANGED <<stdout_open, queue, thread, animation_running, spinner_idx,
                 progress, last_line, displayed, enqueued, dequeued, dl_pc>>
  /\ UNCHANGED <<dbVars, ingestVars>>

\* git closes its output
GitCloses ==
  /\ stdout_open
  /\ stdout_open' = FALSE
  /\ UNCHANGED <<process_stdout, queue, thread, animation_running, spinner_idx,
                 progress, last_line, displayed, git_lines, enqueued, dequeued, dl_pc>>
  /\ UNCHANGED <<dbVars, ingestVars>>

\* read_output, lines 440-441: readline returns a line, q.put(line)
ReadOutputLine ==
  /\ thread = "running"
  /\ process_stdout # <<>>
  /\ queue' = Append(queue, Head(process_stdout))
  /\ enqueued' = Append(enqueued, Head(process_stdout))
  /\ process_stdout' = Tail(process_stdout)
  /\ UNCHANGED <<stdout_open, thread, animation_running, spinner_idx, progress,
                 last_line, displayed, git_lines, dequeued, dl_pc>>
  /\ UNCHANGED <<dbVars, ingestVars>>

\* read_output, lines 440 and 442: readline returns '' at the end of the
\* output, q.put(None), and the thread ends
ReadOutputEnd ==
  /\ thread = "running"
  /\ process_stdout = <<>>
  /\ ~stdout_open
  /\ queue' = Append(queue, Sentinel)
  /\ enqueued' = Append(enqueued, Sentinel)
  /\ thread' = "ended"
  /\ UNCHANGED <<process_stdout, stdout_open, animation_running, spinner_idx,
                 progress, last_line, displayed, git_lines, dequeued, dl_pc>>
  /\ UNCHANGED <<dbVars, ingestVars>>

\* lines 471-476: the status line is drawn with the progress new_progress
Spin(new_progress) ==
  /\ displayed' = new_progress
  /\ spinner_idx' = (spinner_idx + 1) % 4

\* an iteration of the UI loop in which q.get returns an item (lines 454-467):
\* the sentinel ends the loop, a line is shown and may raise the progress
LoopGet ==
  /\ dl_pc = "loop"
  /\ animation_running
  /\ queue # <<>>
  /\ queue' = Tail(queue)
  /\ dequeued' = Append(dequeued, Head(queue))
  /\ IF Head(queue) = Sentinel
     THEN /\ animation_running' = FALSE
          /\ dl_pc' = "join"
          /\ UNCHANGED <<last_line, progress, displayed, spinner_idx>>
     ELSE /\ last_line' = Head(queue).text
          /\ progress' = NewProgress(Head(queue), progress)
          /\ Spin(NewProgress(Head(queue), progress))
          /\ UNCHANGED <<animation_running, dl_pc>>
  /\ UNCHANGED <<process_stdout, stdout_open, thread, git_lines, enqueued>>
  /\ UNCHANGED <<dbVars, ingestVars>>

\* an iteration in which q.get times out on the empty queue (lines 468-469)
LoopEmpty ==
  /\ dl_pc = "loop"
  /\ animation_running
  /\ queue = <<>>
  /\ Spin(progress)
  /\ UNCHANGED <<process_stdout, stdout_open, queue, thread, animation_running,
                 progress, last_line, git_lines, enqueued, dequeued, dl_pc>>
  /\ UNCHANGED <<dbVars, ingestVars>>

\* line 478: thread.join() returns once read_output has ended
Join ==
  /\ dl_pc = "join"
  /\ thread = "ended"
  /\ dl_pc' = "joined"
  /\ UNCHANGED <<process_stdout, stdout_open, queue, thread, animation_running,
                 spinner_idx, progress, last_line, displayed, git_lines,
                 enqueued, dequeued>>
  /\ UNCHANGED <<dbVars, ingestVars>>

NextDownload ==
  GitWrites \/ GitCloses \/ ReadOutputLine \/ ReadOutputEnd \/ LoopGet \/ LoopEmpty \/ Join

SpecDownload == InitDownload /\ [][NextDownload]_vars

\* The thread and the main thread are both scheduled again and again: a
\* readline that can return does, and an iteration of the UI loop, whose
\* q.get waits 0.2 s at most, is completed.
SpecDownloadLive ==
  /\ SpecDownload
  /\ WF_vars(ReadOutputLine)
  /\ WF_vars(ReadOutputEnd)
  /\ WF_vars(LoopGet)
  /\ WF_vars(LoopEmpty)
  /\ WF_vars(Join)

\* ------------------------------------------------------------------------
\* The read path of the format (lookup), used to state the properties
\* ------------------------------------------------------------------------
Range(f) == {f[x] : x \in DOMAIN f}

\* the first HEADER_SIZE bytes of the file: MAGIC, then the slots as
\* _write_initial_header and close pack them ('<q i' each)
HeaderBytes(slots) ==
  MAGIC \o Flatten([i \in 1..3 |-> Pack64(slots[i][1]) \o Pack32(slots[i][2])])

FileHeader == HeaderBytes(header)

\* the paths of an index record: path_count times { len:i32, utf8[len] };
\* [reader, paths]
RECURSIVE ParseIndexPaths(_, _, _, _)
ParseIndexPaths(b, reader, count, paths) ==
  IF count <= 0 \/ ~HasBytes(b, reader, 4) THEN [reader |-> reader, paths |-> paths]
  ELSE LET len == Unpack32(Slice(b, reader, 4))
       IN ParseIndexPaths(b, reader + 4 + len, count - 1,
                          Append(paths, Utf8Decode(Slice(b, reader + 4, len))))

\* the records of an index page: doc_id:16 bytes, first_page:i64,
\* current_version:i32, path_count:i32 and the paths; [reader, records]
RECURSIVE ParseIndexRecords(_, _, _, _)
ParseIndexRecords(b, reader, count, records) ==
  IF count <= 0 \/ ~HasBytes(b, reader, 32) THEN [reader |-> reader, records |-> records]
  ELSE LET ps == ParseIndexPaths(b, reader + 32, Unpack32(Slice(b, reader + 28, 4)), <<>>)
       IN ParseIndexRecords(b, ps.reader, count - 1,
            Append(records,
                   [doc_id |-> Slice(b, reader, 16),
                    first_page_id |-> Unpack64(Slice(b, reader + 16, 8)),
                    current_version |-> Unpack32(Slice(b, reader + 24, 4)),
                    paths |-> ps.paths]))

\* the index as a reader parses it: [doc_count, reader, records]
ParseIndex(b) ==
  LET doc_count == Unpack32(Slice(b, 0, 4))
      rs == ParseIndexRecords(b, 4, doc_count, <<>>)
  IN [doc_count |-> doc_count, reader |-> rs.reader, records |-> rs.records]

\* a < b for byte strings of the same length, byte by byte
BytesLess(a, b) ==
  \E i \in 1..Len(a) : a[i] < b[i] /\ \A j \in 1..(i - 1) : a[j] = b[j]

\* the three (i64, i32) slots a reader unpacks after MAGIC
ReadSlots(b) ==
  [i \in 1..3 |-> <<Unpack64(Slice(b, MagicLen + 12 * (i - 1), 8)),
                    Unpack32(Slice(b, MagicLen + 12 * (i - 1) + 8, 4))>>]

\* the node a reader loads from a page: the stored payload, parsed
LoadNode(p) ==
  IF p \in DOMAIN pages /\ pages[p].flags = FLAG_TRIE_PAGE
  THEN DeserializeTrieNode(pages[p].body)
  ELSE ParseFail("NotFound")

\* the node that was serialized into a page
WrittenNode(p) == ParseTrieNode(pages[p].body, TRUE).node

\* Lookup walk: consume the node's edge, descend by the child keyed on the
\* next character, consuming it.  The page the walk ends at, or -1.
RECURSIVE Walk(_, _)
Walk(page, remaining) ==
  LET r == LoadNode(page)
      edge == r.node.edge
      rest == Drop(remaining, Len(edge))
  IN IF r.err # "none" \/ Take(remaining, Len(edge)) # edge THEN -1
     ELSE IF rest = <<>> THEN page
     ELSE IF rest[1] \in DOMAIN r.node.children
     THEN Walk(r.node.children[rest[1]], Tail(rest))
     ELSE -1

\* resolve(path): the document id at the end of the walk on reverse(path)
Resolve(path) ==
  LET end == IF trie_root_page_id = -1 THEN -1
             ELSE Walk(trie_root_page_id, Reverse(path))
  IN IF end = -1 THEN NoDoc ELSE LoadNode(end).node.document_id

\* every node the walk can end at, with the key that leads to it
RECURSIVE TrieNodes(_, _)
TrieNodes(page, prefix) ==
  LET r == LoadNode(page)
      key == prefix \o r.node.edge
  IN IF r.err # "none" THEN {}
     ELSE {[page |-> page, key |-> key]} \cup
          UNION {TrieNodes(r.node.children[k], key \o <<k>>) : k \in DOMAIN r.node.children}

AllTrieNodes == IF trie_root_page_id = -1 THEN {} ELSE TrieNodes(trie_root_page_id, <<>>)

InsertedKeys == {Reverse(calls[i].path) : i \in 1..Len(calls)}

\* the calls so far all returned, and their paths are non-empty and differ
DistinctNonEmptyPaths ==
  /\ status # "failed"
  /\ \A i \in 1..Len(calls) : calls[i].path # <<>>
  /\ \A i, j \in 1..Len(calls) : i # j => calls[i].path # calls[j].path

\* the pages from p along next_page, -1 standing for a page that was not
\* written as a DATA page
RECURSIVE ChainFrom(_, _)
ChainFrom(p, fuel) ==
  IF p = -1 THEN <<>>
  ELSE IF fuel = 0 \/ p \notin DOMAIN pages THEN <<-1>>
  ELSE IF pages[p].flags # FLAG_DATA_PAGE THEN <<-1>>
  ELSE <<p>> \o ChainFrom(pages[p].next_page_id, fuel - 1)

\* the payloads of the pages ch, concatenated, are data[0:len(data)]
Reconstructs(ch, data) ==
  /\ ch # <<>>
  /\ \A k \in 1..Len(ch) :
       /\ ch[k] # -1
       /\ pages[ch[k]].chunk[1] = data
       /\ pages[ch[k]].chunk[2] = (IF k = 1 THEN 0 ELSE pages[ch[k - 1]].chunk[3])
  /\ pages[ch[Len(ch)]].chunk[3] = data.len

\* ------------------------------------------------------------------------
\* Properties
\* ------------------------------------------------------------------------

\* C1: after write_document calls with pairwise distinct non-empty paths,
\* the lookup walk on reverse(P) of every inserted path P ends at a node whose
\* document_id is the UUID assigned to P.
C1_InsertedPathResolves ==
  DistinctNonEmptyPaths =>
    \A i \in 1..Len(calls) : Resolve(calls[i].path) = calls[i].id

\* C2: after write_document calls with pairwise distinct non-empty paths, a
\* node that a lookup walk can end at carries a document_id only if its key
\* is the reversed path of some insert: the walk on a string never inserted
\* fails or ends at a node without document.
C2_OnlyInsertedKeysResolve ==
  DistinctNonEmptyPaths =>
    \A n \in AllTrieNodes :
      LoadNode(n.page).node.document_id # NoDoc => n.key \in InsertedKeys

\* C3: for every document with a payload of n >= 1 bytes, following next_page
\* from first_page_id until -1 visits only DATA pages, and their payloads in
\* that order make up the original payload.
C3_ChainReconstructsPayload ==
  \A i \in 1..Len(calls) :
    calls[i].data.len >= 1 =>
      Reconstructs(ChainFrom(documents[calls[i].id].first_page_id, current_page_id),
                   calls[i].data)

\* C4: along a document's chain the page of chunk k+1 has prev_page = page of
\* chunk k, the page of chunk k has next_page = page of chunk k+1, the first
\* page has prev = -1 and only the last page has next = -1.
C4_ChainLinks ==
  \A i \in 1..Len(calls) :
    LET cp == calls[i].chunk_pages
    IN cp # <<>> =>
         /\ pages[cp[1]].prev_page_id = -1
         /\ pages[cp[Len(cp)]].next_page_id = -1
         /\ \A k \in 1..(Len(cp) - 1) :
              /\ pages[cp[k + 1]].prev_page_id = cp[k]
              /\ pages[cp[k]].next_page_id = cp[k + 1]

\* C5: write_document with an empty payload emits exactly one DATA page with
\* payload_len = 0, and first_page_id is that page, never -1.
C5_EmptyPayloadOnePage ==
  \A i \in 1..Len(calls) :
    calls[i].data.len = 0 =>
      /\ Len(calls[i].chunk_pages) = 1
      /\ documents[calls[i].id].first_page_id # -1
      /\ documents[calls[i].id].first_page_id = calls[i].chunk_pages[1]
      /\ pages[calls[i].chunk_pages[1]].flags = FLAG_DATA_PAGE
      /\ ContentLen(ContentOf(pages[calls[i].chunk_pages[1]])) = 0

\* C6: a read of a page whose stored payload differs from what write_raw_page
\* wrote (the crc of its header no longer matches) fails with a checksum
\* mismatch, the trie-node reads of an insertion included.
C6_ReadVerifiesChecksum ==
  \A k \in 1..Len(io) :
    (io[k][1] = "read" /\ ~io[k][4]) => io[k][3] = "ChecksumMismatch"

\* C7: write_raw_page writes nothing, failing with PayloadTooLarge, when the
\* stored payload is longer than PAGE_SIZE - PAGE_HEADER_SIZE: no call wrote
\* such a page, and a call handed such a payload ended in PayloadTooLarge.
C7_TooLargeIsRefused ==
  \A k \in 1..Len(io) :
    io[k][1] = "write" => io[k][4] <= PAGE_SIZE - PAGE_HEADER_SIZE

\* C8: every written page has payload_len <= PAGE_SIZE - PAGE_HEADER_SIZE, and
\* the bytes of page k end before the bytes of page k+1 begin.
C8_PagesDoNotOverlap ==
  \A p \in DOMAIN pages :
    /\ pages[p].data_length <= PAGE_SIZE - PAGE_HEADER_SIZE
    /\ PageOffset(p) + PAGE_HEADER_SIZE + pages[p].extent <= PageOffset(p + 1)

\* C9: after every completed _trie_insert, every trie node reachable from the
\* root, the root excepted, names a parent page whose stored node lists the
\* node's page among its children.
C9_ParentListsChild ==
  status # "failed" =>
    \A n \in AllTrieNodes :
      n.page # trie_root_page_id =>
        LET parent == LoadNode(LoadNode(n.page).node.parent_page_id)
        IN parent.err = "none" /\ n.page \in Range(parent.node.children)

\* C10: in every stored trie node no two children share their key byte, the
\* first UTF-8 byte of the child's key as serialized.
C10_ChildKeyBytesDiffer ==
  \A p \in DOMAIN pages :
    pages[p].flags = FLAG_TRIE_PAGE =>
      \A k1, k2 \in DOMAIN WrittenNode(p).children :
        k1 # k2 => Utf8Char(k1)[1] # Utf8Char(k2)[1]

\* C11: paths with non-ASCII characters round-trip: every trie node that an
\* insertion wrote, the nodes with a child keyed on a multi-byte character
\* included, is read back by _deserialize_trie_node from the bytes that
\* _serialize_trie_node made of it, equal in edge, parent, self page,
\* document id and children.
C11_TrieNodeRoundTrips ==
  \A p \in DOMAIN pages :
    pages[p].flags = FLAG_TRIE_PAGE =>
      LET n == WrittenNode(p)
      IN SerializeTrieNode(n) = pages[p].body =>
           DeserializeTrieNode(SerializeTrieNode(n)) = [err |-> "none", node |-> n]

\* C12: after close the three (i64, i32) slots after MAGIC read
\* (index_page_id, 0), (trie_root_page_id, 0), (-1, 0): the first names the
\* page the index was written on, the second the root page of the trie, or
\* -1 if no document was ever written.
C12_HeaderAfterClose ==
  status = "closed" =>
    LET slots == ReadSlots(FileHeader)
        index_pages == {p \in DOMAIN pages : pages[p].flags = FLAG_INDEX_PAGE}
        root_pages == {p \in DOMAIN pages :
                         /\ pages[p].flags = FLAG_TRIE_PAGE
                         /\ WrittenNode(p).parent_page_id = -1
                         /\ WrittenNode(p).edge = <<>>}
    IN /\ Take(FileHeader, MagicLen) = MAGIC
       /\ index_pages = {slots[1][1]}
       /\ slots[1] = <<index_page_id, 0>>
       /\ slots[2] = <<trie_root_page_id, 0>>
       /\ IF calls = <<>> THEN slots[2][1] = -1 ELSE root_pages = {slots[2][1]}
       /\ slots[3] = <<-1, 0>>

\* closed containers with documents: the header names two different pages
C12_Witness ==
  /\ status = "closed"
  /\ Len(calls) >= 2
  /\ ReadSlots(FileHeader)[2][1] >= 0
  /\ ReadSlots(FileHeader)[1][1] > ReadSlots(FileHeader)[2][1]

\* the position in io of the first write of page p by the last call, 0 if
\* the call did not write it
FirstWrite(p) ==
  LET ws == {k \in 1..Len(io) : io[k][1] = "write" /\ io[k][2] = p}
  IN IF ws = {} THEN 0 ELSE CHOOSE k \in ws : \A l \in ws : k <= l

\* C13: every page id returned by allocate_page is subsequently written as a
\* page; new pages are first written in the order in which their ids were
\* allocated; no allocated page id is left unwritten at close.
C13_AllocatedPagesAreWritten ==
  status # "failed" =>
    /\ \A p \in 0..(current_page_id - 1) : p \in DOMAIN pages
    /\ \A i \in 1..Len(io) :
         io[i][1] = "alloc" =>
           /\ FirstWrite(io[i][2]) > i
           /\ \A j \in (i + 1)..Len(io) :
                io[j][1] = "alloc" => FirstWrite(io[i][2]) < FirstWrite(io[j][2])

\* the pages written with the given flags
PagesOfKind(flags) == {p \in DOMAIN pages : pages[p].flags = flags}

\* a closed container of a single document with a non-empty path and a
\* non-empty payload of one chunk
SingleSmallDocument ==
  /\ status = "closed"
  /\ Len(calls) = 1
  /\ calls[1].path # <<>>
  /\ calls[1].data.len >= 1
  /\ calls[1].data.len <= PAGE_SIZE - PAGE_HEADER_SIZE

\* C14 as stated: packing a single document whose payload fits in one chunk
\* and closing results in exactly 3 allocated pages: one DATA page, one TRIE
\* root page and one INDEX page.
C14_ThreePages ==
  SingleSmallDocument =>
    /\ current_page_id = 3
    /\ Cardinality(PagesOfKind(FLAG_DATA_PAGE)) = 1
    /\ Cardinality(PagesOfKind(FLAG_TRIE_PAGE)) = 1
    /\ Cardinality(PagesOfKind(FLAG_INDEX_PAGE)) = 1

\* C14 as amended: packing a single document with a non-empty path and a
\* non-empty payload of one chunk and closing results in exactly 4 allocated
\* pages, all written: one DATA page, two TRIE pages (the root and the leaf
\* below it) and one INDEX page.
C14_FourPages ==
  SingleSmallDocument =>
    /\ current_page_id = 4
    /\ DOMAIN pages = 0..3
    /\ PagesOfKind(FLAG_DATA_PAGE) = {calls[1].first_page_id}
    /\ Cardinality(PagesOfKind(FLAG_TRIE_PAGE)) = 2
    /\ trie_root_page_id \in PagesOfKind(FLAG_TRIE_PAGE)
    /\ \A p \in PagesOfKind(FLAG_TRIE_PAGE) \ {trie_root_page_id} :
         /\ WrittenNode(p).parent_page_id = trie_root_page_id
         /\ p \in Range(WrittenNode(trie_root_page_id).children)
    /\ PagesOfKind(FLAG_INDEX_PAGE) = {index_page_id}

\* the container of one 2-byte document, closed without compression
C14_Witness ==
  /\ SingleSmallDocument
  /\ ~use_compression
  /\ calls[1].data.len = 2

\* the document ids carried by the stored trie nodes
StoredDocIds ==
  {WrittenNode(p).document_id : p \in PagesOfKind(FLAG_TRIE_PAGE)} \ {NoDoc}

\* the last call wrote a trie node to a page it had allocated itself
CreatedTrieNode ==
  \E i, j \in 1..Len(io) :
    /\ io[i][1] = "alloc"
    /\ io[j][1] = "write"
    /\ io[j][2] = io[i][2]
    /\ io[j][3] = FLAG_TRIE_PAGE

C16_HeaderIs32Bytes ==
  0 \in DOMAIN pages =>
    /\ HEADER_SIZE = 32
    /\ Len(FileHeader) = 32
    /\ pages[0].offset = 32
    /\ \A k \in DOMAIN pages : pages[k].offset = 32 + k * 4096

\* C16 as amended: the file header (MAGIC and three (i64, i32) slots) is
\* exactly HEADER_SIZE = 44 bytes long, at open and ever after, and the
\* header of page k is written at byte 44 + k * 4096 whatever the sizes of
\* the payloads, so that page 0 begins at byte 44, right after the header.
C16_HeaderIs44Bytes ==
  /\ HEADER_SIZE = 44
  /\ Len(FileHeader) = 44
  /\ \A k \in DOMAIN pages : pages[k].offset = 44 + k * 4096

\* pages written after a payload longer than the room of a page, and after
\* a short one
C16_Witness ==
  /\ {0, 2, 3} \subseteq DOMAIN pages
  /\ pages[0].data_length > PAGE_SIZE - PAGE_HEADER_SIZE
  /\ pages[2].data_length < 100
  /\ pages[0].offset = 44

\* C17: the index serialized at close holds exactly one record per completed
\* write_document call (doc_count is the number of calls; each record holds
\* the UUID of its call, its first_page_id, version 0 and its single path),
\* and the records are in ascending order of the 16 bytes of doc_id.
C17_IndexRecords ==
  status = "closed" =>
    LET b == pages[index_page_id].body
        index == ParseIndex(b)
        recs == index.records
    IN /\ index.doc_count = Len(calls)
       /\ Len(recs) = Len(calls)
       /\ index.reader = Len(b)
       /\ \A i \in 1..Len(calls) :
            Cardinality({k \in 1..Len(recs) : recs[k].doc_id = UuidBytes(calls[i].id)}) = 1
       /\ \A k \in 1..Len(recs) :
            \E i \in 1..Len(calls) :
              recs[k] = [doc_id |-> UuidBytes(calls[i].id),
                         first_page_id |-> calls[i].first_page_id,
                         current_version |-> 0,
                         paths |-> <<calls[i].path>>]
       /\ \A k \in 1..(Len(recs) - 1) : BytesLess(recs[k].doc_id, recs[k + 1].doc_id)

\* a closed container whose documents were not written in the order of
\* their UUIDs, one of them under a non-ASCII path
C17_Witness ==
  /\ status = "closed"
  /\ Len(calls) = 3
  /\ calls[1].id > calls[2].id
  /\ calls[3].id < calls[2].id
  /\ \E i \in 1..3 : \E k \in 1..Len(calls[i].path) : calls[i].path[k] > 127

\* ------------------------------------------------------------------------
\* A second run of the program on the same calls, in which the k-th call of
\* uuid.uuid4() returns the UUID k
\* ------------------------------------------------------------------------
\* the bytes of a file: its header and, page by page, the packed page header
\* and the payload bytes behind it
PageBytes(pg) ==
  [crc |-> pg.crc, version |-> pg.version, prev_page_id |-> pg.prev_page_id,
   next_page_id |-> pg.next_page_id, flags |-> pg.flags,
   data_length |-> pg.data_length, body |-> pg.body, chunk |-> pg.chunk,
   tail |-> pg.tail]

FileBytes(slots, pgs) ==
  [header |-> HeaderBytes(slots), pages |-> [p \in DOMAIN pgs |-> PageBytes(pgs[p])]]

\* write_document of the second run: r is [m, docs]
ReplayInsert(w, docs, call, id) ==
  [m |-> TrieInsert(w.m, call.path, id),
   docs |-> [u \in DOMAIN docs \cup {id} |->
               IF u = id THEN Document(id, w.first_page_id, 0, <<call.path>>)
               ELSE docs[u]]]

ReplayCall(r, call, id) ==
  ReplayInsert(WriteChunks(r.m, call.data, 0, -1, -1, <<>>), r.docs, call, id)

RECURSIVE Replay(_)
Replay(k) ==
  IF k = 0
  THEN [m |-> [cur |-> 0, root |-> -1, pages |-> [p \in {} |-> 0], io |-> <<>>,
               err |-> "none"],
        docs |-> [u \in {} |-> 0]]
  ELSE ReplayCall(Replay(k - 1), calls[k], k)

\* close of the second run
ReplayIndex(a, docs, root) ==
  FileBytes(CloseHeader(a.page_id, root),
            WriteRawPage(a.m, a.page_id, BodyContent(SerializeIndex(docs)),
                         FLAG_INDEX_PAGE, -1, -1).pages)

ReplayClose(r) == ReplayIndex(AllocatePage(r.m), r.docs, r.m.root)

\* C18: output determinism: two runs of open, the same sequence of
\* write_document(path, bytes) calls and close, with the same use_compression
\* setting, produce byte-identical files (here: this run and the run in
\* which uuid4 returns the UUIDs 1, 2, 3 in this order).
C18_OutputDeterminism ==
  status = "closed" => FileBytes(header, pages) = ReplayClose(Replay(Len(calls)))

\* a stored page id: -1 or the id of an allocated page
ValidPageId(x) == x = -1 \/ (x >= 0 /\ x < current_page_id)

\* the page ids of a trie node, of the records of an index, of a page
NodeIdsValid(n) ==
  /\ ValidPageId(n.parent_page_id)
  /\ ValidPageId(n.self_page_id)
  /\ \A c \in DOMAIN n.children : ValidPageId(n.children[c])

RecordIdsValid(records) ==
  \A k \in 1..Len(records) : ValidPageId(records[k].first_page_id)

StoredIdsValid(p) ==
  /\ p >= 0 /\ p < current_page_id
  /\ ValidPageId(pages[p].prev_page_id)
  /\ ValidPageId(pages[p].next_page_id)
  /\ pages[p].flags = FLAG_TRIE_PAGE => NodeIdsValid(WrittenNode(p))
  /\ pages[p].flags = FLAG_INDEX_PAGE =>
       RecordIdsValid(ParseIndex(pages[p].body).records)

\* every page id stored in the file or in the container object
PageIdsInRange ==
  /\ \A p \in DOMAIN pages : StoredIdsValid(p)
  /\ \A u \in DOMAIN documents : ValidPageId(documents[u].first_page_id)
  /\ \A i \in 1..3 : ValidPageId(ReadSlots(FileHeader)[i][1])
  /\ ValidPageId(trie_root_page_id)
  /\ ValidPageId(index_page_id)

\* the page ids that the allocate_page calls of a step returned, in order
Allocated(log) ==
  LET allocs == SelectSeq(log, LAMBDA e : e[1] = "alloc")
  IN [k \in 1..Len(allocs) |-> allocs[k][2]]

\* C20: allocate_page returns strictly increasing page ids starting at 0
\* and never the same id twice (a call's allocations are current_page_id,
\* current_page_id + 1, .. in this order), and in every reachable state
\* every page id stored anywhere (chain prev/next links, trie parent, self
\* and child pointers, Document.first_page_id, header slots) is -1 or in
\* 0..current_page_id-1.
C20_PageIdsMonotoneAndInRange ==
  /\ []PageIdsInRange
  /\ [][Allocated(io') = [k \in 1..(current_page_id' - current_page_id) |->
                             current_page_id + k - 1]]_vars

\* a closed container with a chain of three DATA pages and a trie node with
\* a child
C20_Witness ==
  /\ status = "closed"
  /\ \E p \in DOMAIN pages :
       /\ pages[p].flags = FLAG_DATA_PAGE
       /\ pages[p].prev_page_id >= 0
       /\ pages[p].next_page_id >= 0
  /\ \E p \in PagesOfKind(FLAG_TRIE_PAGE) :
       /\ WrittenNode(p).parent_page_id >= 0
       /\ WrittenNode(p).children # NoChildren
  /\ \E u \in DOMAIN documents : documents[u].first_page_id = -1

\* the files that are to produce a document: no directory on the path below
\* the input root has an excluded name, and the file name does not end in an
\* excluded extension
ToBeIngested(f) ==
  /\ \A i \in 1..Len(f.dir) : f.dir[i] \notin exclude_dirs
  /\ ~ExcludedExt(f.name)

\* C19: when generate_sdb has packed the input directory, a file under it
\* has produced a document if and only if no directory on its path below the
\* input root is named .git, __pycache__ or .DS_Store and its name does not
\* end in .bak, .tmp or .log; every recorded logical path is relative to the
\* input root and uses forward slashes; no logical path is written twice.
C19_IngestorExclusion ==
  pc = "done" =>
    /\ Len(calls) = Len(ingested)
    /\ \A f \in Listing :
         ToBeIngested(f) <=> (\E i \in 1..Len(ingested) : ingested[i] = f)
    /\ \A i, j \in 1..Len(ingested) : i # j => ingested[i] # ingested[j]
    /\ \A i \in 1..Len(calls) :
         /\ ~HasBackslash(calls[i].path)
         /\ calls[i].path[1] # 47
         /\ (\A k \in 1..Len(ingested[i].dir) : ~HasBackslash(ingested[i].dir[k]))
              /\ ~HasBackslash(ingested[i].name)
            => calls[i].path = JoinPath(ingested[i].dir \o <<ingested[i].name>>, 47)
    /\ \A i, j \in 1..Len(calls) : i # j => calls[i].path # calls[j].path

\* the comparisons of the last call, in order: <<"compare", page, remaining, edge>>
Comparisons == SelectSeq(io, LAMBDA e : e[1] = "compare")

\* C21: when the edge of the current node is fully consumed and the next
\* remaining character k is a key of its children, the descent to that child
\* consumes k: the comparison at the child is made between the child's edge
\* and the remaining key without the consumed edge and without k.
C21_DescentStripsKey ==
  \A n \in 1..(Len(Comparisons) - 1) :
    Comparisons[n + 1][3] = Drop(Comparisons[n][3], Len(Comparisons[n][4]) + 1)

LastCall == calls[Len(calls)]

\* the splits of the last call: <<"split", page, node, common, remaining, suffix_page>>
Splits == SelectSeq(io, LAMBDA e : e[1] = "split")

\* the pages allocated by the last call after the suffix page of a split
LeafPagesAfter(suffix_page) == {p \in Range(Allocated(io)) : p > suffix_page}

SplitNodeChildren(e, written) ==
  LET link == e[3].edge[e[4] + 1]
      rest == Drop(e[5], e[4])
  IN /\ link \in DOMAIN written.children
     /\ written.children[link] = e[6]
     /\ \/ DOMAIN written.children = {link}
        \/ /\ rest # <<>>
           /\ rest[1] # link
           /\ DOMAIN written.children = {link, rest[1]}
           /\ written.children[rest[1]] \in LeafPagesAfter(e[6])

SplitPostcondition(e, doc_id) ==
  /\ WrittenNode(e[6]) = ReverseTrieNode(Drop(e[3].edge, e[4]), e[2], e[6],
                                         e[3].document_id, e[3].children)
  /\ WrittenNode(e[2]).edge = Take(e[3].edge, e[4])
  /\ WrittenNode(e[2]).parent_page_id = e[3].parent_page_id
  /\ WrittenNode(e[2]).self_page_id = e[2]
  /\ WrittenNode(e[2]).document_id =
       (IF Drop(e[5], e[4]) = <<>> THEN doc_id ELSE NoDoc)
  /\ SplitNodeChildren(e, WrittenNode(e[2]))

\* C22: after an insert that split the node N on page p at the common length
\* c, the suffix page holds a node with edge[c:], parent p, itself as its own
\* page and N's former document and children; page p holds a node with
\* edge[:c], N's parent, no document unless the key ended at the split point
\* (then the new document), and as children edge[c] -> suffix page plus at
\* most one new leaf keyed on the next remaining character, which is not
\* edge[c].
C22_SplitPostcondition ==
  status = "open" =>
    \A n \in 1..Len(Splits) : SplitPostcondition(Splits[n], calls[Len(calls)].id)

\* a completed split of a node that had children, by a key that ended at
\* the split point
C22_Witness ==
  /\ status = "open"
  /\ \E n \in 1..Len(Splits) :
       /\ Splits[n][3].children # NoChildren
       /\ Drop(Splits[n][5], Splits[n][4]) = <<>>
       /\ WrittenNode(Splits[n][2]).document_id = LastCall.id

\* a completed split of a node that had a document, with a new leaf below
\* the split node
C22_LeafWitness ==
  /\ status = "open"
  /\ \E n \in 1..Len(Splits) :
       /\ Splits[n][3].document_id # NoDoc
       /\ Drop(Splits[n][5], Splits[n][4]) # <<>>
       /\ Cardinality(DOMAIN WrittenNode(Splits[n][2]).children) = 2

SplitsOf(log) == SelectSeq(log, LAMBDA e : e[1] = "split")

WrittenPages(log) == {e[2] : e \in {x \in Range(log) : x[1] = "write"}}

\* the trie pages of a file whose stored node has page p among its children
ParentsOf(p, before) ==
  {q \in DOMAIN before :
     /\ before[q].flags = FLAG_TRIE_PAGE
     /\ p \in Range(ParseTrieNode(before[q].body, TRUE).node.children)}

\* a call with the events log that split the node on page e[2] took the
\* pages before to the pages after
SplitFrame(e, log, before, after) ==
  /\ \A q \in DOMAIN before :
       before[q].flags = FLAG_TRIE_PAGE /\ q # e[2] =>
         ParseTrieNode(after[q].body, TRUE).node = ParseTrieNode(before[q].body, TRUE).node
  /\ (WrittenPages(log) \cap DOMAIN before) \ {e[2]} \subseteq ParentsOf(e[2], before)

\* C23: an edge split at the node N leaves every other trie page that existed
\* before it logically unchanged: the page of N's parent is written back with
\* a node equal to the one it held, and no page of a grandparent or of a
\* sibling of N is written.
C23_SplitFrame ==
  [][\A n \in 1..Len(SplitsOf(io')) : SplitFrame(SplitsOf(io')[n], io', pages, pages')]_vars

InitialSlots == << <<-1, 0>>, <<-1, 0>>, <<-1, 0>> >>

\* page p holds the serialized index of the documents
HoldsIndex(p) ==
  /\ p \in DOMAIN pages
  /\ pages[p].flags = FLAG_INDEX_PAGE
  /\ pages[p].body = SerializeIndex(documents)
  /\ pages[p].data_length = StoredLen(BodyContent(SerializeIndex(documents)), use_compression)

\* in the events of close the header is rewritten last, after the index page
\* was allocated and written
IndexBeforeHeader(log, p) ==
  /\ Len(log) = 3
  /\ log[1] = <<"alloc", p>>
  /\ log[2][1] = "write" /\ log[2][2] = p /\ log[2][3] = FLAG_INDEX_PAGE
  /\ log[3] = <<"header", p>>

\* C24: from open until close the three header slots stay (-1, 0); close
\* allocates and writes the INDEX page before it rewrites a header slot; and
\* in every state a header index slot other than -1 names a page that holds
\* the serialized index.
C24_HeaderCommit ==
  /\ status # "closed" => header = InitialSlots /\ ReadSlots(FileHeader) = InitialSlots
  /\ status = "closed" => IndexBeforeHeader(io, ReadSlots(FileHeader)[1][1])
  /\ ReadSlots(FileHeader)[1][1] # -1 => HoldsIndex(ReadSlots(FileHeader)[1][1])

\* a closed container of two documents or more
C24_Witness ==
  /\ status = "closed"
  /\ Cardinality(DOMAIN documents) >= 2
  /\ ReadSlots(FileHeader)[1][1] = index_page_id

\* the root page holds a node with an empty edge, no parent, itself as its
\* own page and no document
RootNodeShape ==
  /\ trie_root_page_id \in DOMAIN pages
  /\ pages[trie_root_page_id].flags = FLAG_TRIE_PAGE
  /\ WrittenNode(trie_root_page_id).edge = <<>>
  /\ WrittenNode(trie_root_page_id).parent_page_id = -1
  /\ WrittenNode(trie_root_page_id).self_page_id = trie_root_page_id
  /\ WrittenNode(trie_root_page_id).document_id = NoDoc

\* C25: trie_root_page_id is -1 until the first _trie_insert, is assigned
\* once and never changes afterwards; the node on the root page always has an
\* empty edge, parent -1, the root page as its own page and no document.
C25_RootInvariant ==
  /\ [](IF calls = <<>> THEN trie_root_page_id = -1 ELSE RootNodeShape)
  /\ [][trie_root_page_id # -1 => trie_root_page_id' = trie_root_page_id]_vars

\* the root has children and was written again after its creation, by a
\* call that split a node below it
C25_Witness ==
  /\ Len(calls) >= 2
  /\ status = "open"
  /\ Len(Splits) > 0
  /\ trie_root_page_id \in WrittenPages(io)
  /\ WrittenNode(trie_root_page_id).children # NoChildren

\* the trie pages written by the last call
TriePagesWritten ==
  {e[2] : e \in {x \in Range(io) : x[1] = "write" /\ x[3] = FLAG_TRIE_PAGE}}

\* C26: write_document with the empty path is not rejected: the call completes
\* without error, adds a Document record whose only path is the empty
\* string, creates the trie root if there was none, and writes no document_id
\* into any trie node.
C26_EmptyPathAccepted ==
  (calls # <<>> /\ LastCall.path = <<>>) =>
    /\ status # "failed"
    /\ error = "none"
    /\ LastCall.id \in DOMAIN documents
    /\ documents[LastCall.id] = Document(LastCall.id, LastCall.first_page_id, 0, << <<>> >>)
    /\ RootNodeShape
    /\ LastCall.id \notin StoredDocIds
    /\ status = "open" =>
         TriePagesWritten \subseteq ({trie_root_page_id} \cap Range(Allocated(io)))

\* the empty path written as the first document, and written after another
\* document
C26_FirstCallWitness ==
  /\ status = "open" /\ Len(calls) = 1 /\ LastCall.path = <<>>
  /\ TriePagesWritten = {trie_root_page_id}

C26_Witness ==
  /\ status = "open" /\ Len(calls) >= 2 /\ LastCall.path = <<>>
  /\ calls[1].path # <<>>
  /\ TriePagesWritten = {}
  /\ Cardinality(DOMAIN documents) = Len(calls)

\* the trie pages of the file pgs reached from page p through child links, in
\* at most fuel steps
RECURSIVE ReachFrom(_, _, _)
ReachFrom(pgs, p, fuel) ==
  IF fuel = 0 \/ p \notin DOMAIN pgs THEN {}
  ELSE IF pgs[p].flags # FLAG_TRIE_PAGE THEN {}
  ELSE {p} \cup UNION {ReachFrom(pgs, q, fuel - 1) :
                         q \in Range(ParseTrieNode(pgs[p].body, TRUE).node.children)}

ReachablePages(pgs, root) == ReachFrom(pgs, root, Cardinality(DOMAIN pgs))

DistinctPaths(cs) == \A i, j \in 1..Len(cs) : i # j => cs[i].path # cs[j].path

\* C27: _trie_insert never replaces or removes a child link: in a sequence of
\* inserts with distinct paths, every trie page that is reachable from the
\* root before an insert is reachable from the root after it.
C27_NoOrphanedPages ==
  [][DistinctPaths(calls') =>
       ReachablePages(pages, trie_root_page_id) \subseteq
         ReachablePages(pages', trie_root_page_id')]_vars

ChildPages(p) == Range(WrittenNode(p).children)

\* the child links of the trie pages form a forest: no page is below itself
\* and no page has two incoming links; the root has none
LinksFormTree ==
  /\ \A p \in PagesOfKind(FLAG_TRIE_PAGE) :
       /\ ChildPages(p) \subseteq PagesOfKind(FLAG_TRIE_PAGE) \ {trie_root_page_id}
       /\ \A q \in ChildPages(p) :
            p \notin ReachFrom(pages, q, Cardinality(DOMAIN pages))
  /\ \A p, q \in PagesOfKind(FLAG_TRIE_PAGE) :
       p # q => ChildPages(p) \cap ChildPages(q) = {}

\* the iterations of the last call start at the root and each goes to a child
\* of the node of the iteration before
DescentGoesDeeper ==
  Comparisons # <<>> =>
    /\ Comparisons[1][2] = trie_root_page_id
    /\ \A n \in 1..(Len(Comparisons) - 1) :
         Comparisons[n + 1][2] \in ChildPages(Comparisons[n][2])
    /\ Len(Comparisons) <= Cardinality(PagesOfKind(FLAG_TRIE_PAGE))

\* C28: _trie_insert terminates for every key in every reachable state of the
\* trie: the child links always form a finite tree without cycles, and every
\* iteration of the loop either returns or moves to a child, a strictly
\* deeper node, so that the iterations are at most as many as the trie pages.
C28_InsertTerminates == LinksFormTree /\ DescentGoesDeeper

\* an insert that went through three nodes of a trie in which a node with a
\* non-empty edge has children
C28_Witness ==
  /\ status = "open"
  /\ Len(Comparisons) >= 3
  /\ \E p \in PagesOfKind(FLAG_TRIE_PAGE) :
       WrittenNode(p).edge # <<>> /\ WrittenNode(p).children # NoChildren

\* C29: generate_sdb never ingests its own output: the .sdb file it is
\* writing is not read and stored as a document, also when the output
\* directory is the input directory (the default).
C29_OutputNotIngested ==
  \A i \in 1..Len(ingested) :
    /\ ingested[i] # OutputFile
    /\ calls[i].path # JoinPath(OutputFile.dir \o <<OutputFile.name>>, 47)

Lines(items) == SelectSeq(items, LAMBDA x : x # Sentinel)

Sentinels(items) == Len(SelectSeq(items, LAMBDA x : x = Sentinel))

\* what the thread has put is the lines of git in order, and after the last
\* line of the closed output one sentinel; what the UI loop got and what
\* waits in the queue is what was put, in order; the loop is left only with
\* the sentinel, after every line
ProducerConsumer ==
  /\ Lines(enqueued) \o process_stdout = git_lines
  /\ dequeued \o queue = enqueued
  /\ Sentinels(enqueued) = (IF thread = "ended" THEN 1 ELSE 0)
  /\ thread = "ended" => ~stdout_open /\ enqueued = Append(git_lines, Sentinel)
  /\ dl_pc = "loop" => Sentinels(dequeued) = 0 /\ animation_running
  /\ dl_pc \in {"join", "joined"} =>
       /\ dequeued = Append(git_lines, Sentinel)
       /\ queue = <<>>
       /\ ~animation_running
  /\ dl_pc = "joined" => thread = "ended"

\* C30: the reader thread enqueues every output line of git pull in order and
\* then exactly one None; the UI loop leaves its animation loop only after it
\* dequeued the sentinel and has then dequeued every line; the displayed
\* percentage never decreases; and once git has closed its output the loop
\* ends and thread.join() returns.
C30_ProducerConsumer ==
  /\ []ProducerConsumer
  /\ [][displayed' >= displayed /\ progress' >= progress]_vars
  /\ (~stdout_open) ~> (dl_pc = "joined")

\* the loop was left after three lines, the second of which carried a lower
\* percentage than the first, and join has returned
C30_Witness ==
  /\ dl_pc = "joined"
  /\ Len(git_lines) = MaxLines
  /\ ProgressRe(git_lines[1]) = 90
  /\ ProgressRe(git_lines[2]) = 40
  /\ displayed = 90

====
